---- MODULE Spec2Model ----
(***************************************************************************)
(* A model of ndv6/assets-sdk: the URL builder, the shared-access          *)
(* signature and the two storage adapters (Azure File, S3 s3Manager)       *)
(* behind the IFile interface.                                             *)
(*                                                                         *)
(* Go strings are TLA+ strings; TLC evaluates Len, \o, SubSeq and Tail on  *)
(* them, so the string functions below are computed character by           *)
(* character as the Go code and its standard library compute them.         *)
(***************************************************************************)
EXTENDS Integers, Sequences, FiniteSets, TLC

VARIABLES
    inst,      \* the adapter instance under test (the receiver c / s)
    now,       \* the wall clock, seconds since the Unix epoch (time.Now())
    tz,        \* offset of the process's local time zone, seconds east of UTC
    blob,      \* the last GetBlobURL call: its arguments and return value
    fname,     \* the last GetFileName call: its argument and return value
    sigA,      \* a GenerateSharedAccessSignature call on one File instance
    sigB,      \* a second such call, on an instance differing in one field
    store,     \* the provider's container / bucket: storage key -> object
    copying,   \* the provider's asynchronous copies still pending
    call,      \* the storage operation in progress or last returned
    procs,     \* the concurrent Download invocations: where each one is
    fs         \* the working directory of the process and its files

urlVars == <<blob, fname>>
signVars == <<sigA, sigB>>
storeVars == <<store, copying, call>>
dlVars == <<procs, fs>>
vars == <<inst, now, tz, blob, fname, sigA, sigB, store, copying, call, procs, fs>>

-----------------------------------------------------------------------------
(* Bounds of the model.                                                    *)

MaxKeyLen == 3
MaxRawLen == 3
\* the number of keys the provider returns in one page of a listing
PageSize == 1
\* the number of copies the provider keeps pending at a time
MaxPending == 1

-----------------------------------------------------------------------------
(* Strings.                                                                *)

Char(s, i) == SubSeq(s, i, i)

\* strings.Index(s, c) for a one-character c, 1-based; 0 when absent
Index(s, c) ==
    IF \E i \in 1..Len(s) : Char(s, i) = c
    THEN CHOOSE i \in 1..Len(s) : Char(s, i) = c /\ \A j \in 1..(i - 1) : Char(s, j) # c
    ELSE 0

\* strings.LastIndex(s, c) for a one-character c, 1-based; 0 when absent
LastIndex(s, c) ==
    IF \E i \in 1..Len(s) : Char(s, i) = c
    THEN CHOOSE i \in 1..Len(s) : Char(s, i) = c /\ \A j \in (i + 1)..Len(s) : Char(s, j) # c
    ELSE 0

Contains(s, c) == Index(s, c) # 0

HasPrefix(s, p) == Len(s) >= Len(p) /\ SubSeq(s, 1, Len(p)) = p

TrimPrefix(s, p) == IF HasPrefix(s, p) THEN SubSeq(s, Len(p) + 1, Len(s)) ELSE s

From(s, i) == SubSeq(s, i, Len(s))

RECURSIVE Strs(_, _)
\* every string over the alphabet of at most n characters
Strs(alphabet, n) ==
    IF n = 0 THEN {""}
    ELSE LET S == Strs(alphabet, n - 1) IN S \cup {s \o c : s \in S, c \in alphabet}

\* the printable ASCII characters, code 32 (space) to 95 (_) and 97 (a) to
\* 126 (~); code 96 cannot be written in a TLA+ string and is left out
AsciiLo == " !\"#$%&'()*+,-./0123456789:;<=>?@ABCDEFGHIJKLMNOPQRSTUVWXYZ[\\]^_"
AsciiHi == "abcdefghijklmnopqrstuvwxyz{|}~"

Chr(b) == IF b <= 95 THEN Char(AsciiLo, b - 31) ELSE Char(AsciiHi, b - 96)
OrdTable ==
    [c \in {Char(AsciiLo, i) : i \in 1..Len(AsciiLo)} \cup {Char(AsciiHi, i) : i \in 1..Len(AsciiHi)} |->
        IF Contains(AsciiLo, c) THEN 31 + Index(AsciiLo, c) ELSE 96 + Index(AsciiHi, c)]
Ord(c) == OrdTable[c]

LowerHex == "0123456789abcdef"
UpperHex == "0123456789ABCDEF"

IsHex(c) == Contains(LowerHex, c) \/ Contains(UpperHex, c)
UnHex(c) == IF Contains(LowerHex, c) THEN Index(LowerHex, c) - 1 ELSE Index(UpperHex, c) - 1

IsAlnum(c) == LET o == Ord(c) IN (48 <= o /\ o <= 57) \/ (65 <= o /\ o <= 90) \/ (97 <= o /\ o <= 122)
IsLetter(c) == LET o == Ord(c) IN (65 <= o /\ o <= 90) \/ (97 <= o /\ o <= 122)
IsDigit(c) == LET o == Ord(c) IN 48 <= o /\ o <= 57

RECURSIVE ArgList(_)
ArgList(args) ==
    IF args = <<>> THEN ""
    ELSE "string=" \o Head(args) \o (IF Len(args) > 1 THEN ", " ELSE "") \o ArgList(Tail(args))

RECURSIVE Sprintf(_, _)
\* fmt.Sprintf(format, args...) with string operands: %s takes the next
\* operand, %% is a percent sign, a verb with no operand left prints
\* %!v(MISSING), operands left over print %!(EXTRA ...)
Sprintf(format, args) ==
    IF format = "" THEN (IF args = <<>> THEN "" ELSE "%!(EXTRA " \o ArgList(args) \o ")")
    ELSE IF Char(format, 1) # "%" THEN Char(format, 1) \o Sprintf(Tail(format), args)
    ELSE IF Len(format) = 1 THEN "%!(NOVERB)" \o Sprintf("", args)
    ELSE LET verb == Char(format, 2)
             rest == From(format, 3)
         IN IF verb = "%" THEN "%" \o Sprintf(rest, args)
            ELSE IF args = <<>> THEN "%!" \o verb \o "(MISSING)" \o Sprintf(rest, args)
            ELSE IF verb \in {"s", "v"} THEN Head(args) \o Sprintf(rest, Tail(args))
            ELSE "%!" \o verb \o "(string=" \o Head(args) \o ")" \o Sprintf(rest, Tail(args))

RECURSIVE Join(_, _)
\* strings.Join(elems, sep)
Join(elems, sep) ==
    IF elems = <<>> THEN ""
    ELSE IF Len(elems) = 1 THEN elems[1]
    ELSE elems[1] \o sep \o Join(Tail(elems), sep)

-----------------------------------------------------------------------------
(* net/url, path/filepath and time, as far as the code uses them.          *)

RECURSIVE Unescape(_, _)
\* url.unescape(s, mode): "%XX" becomes the byte XX; a "%" not followed by
\* two hex digits is an EscapeError. In a host (mode "host") only "%25" and
\* the escapes of bytes >= 0x80 are allowed. The result is
\* [err |-> BOOLEAN, val |-> the unescaped string].
Unescape(s, mode) ==
    IF s = "" THEN [err |-> FALSE, val |-> ""]
    ELSE IF Char(s, 1) = "%"
    THEN IF Len(s) < 3 \/ ~IsHex(Char(s, 2)) \/ ~IsHex(Char(s, 3))
         THEN [err |-> TRUE, val |-> ""]
         ELSE IF mode = "host" /\ UnHex(Char(s, 2)) < 8 /\ SubSeq(s, 1, 3) # "%25"
         THEN [err |-> TRUE, val |-> ""]
         ELSE LET r == Unescape(From(s, 4), mode)
              IN [err |-> r.err,
                  val |-> Chr(16 * UnHex(Char(s, 2)) + UnHex(Char(s, 3))) \o r.val]
    ELSE LET r == Unescape(Tail(s), mode)
         IN [err |-> r.err, val |-> Char(s, 1) \o r.val]

\* url.getScheme(rawURL): [err, scheme, rest]
GetScheme(rawURL) ==
    LET stops == {i \in 1..Len(rawURL) :
                     LET c == Char(rawURL, i)
                     IN ~IsLetter(c) /\ ~((IsDigit(c) \/ c \in {"+", "-", "."}) /\ i > 1)}
    IN IF stops = {} THEN [err |-> FALSE, scheme |-> "", rest |-> rawURL]
       ELSE LET i == CHOOSE k \in stops : \A j \in stops : k <= j
            IN IF Char(rawURL, i) # ":" THEN [err |-> FALSE, scheme |-> "", rest |-> rawURL]
               ELSE IF i = 1 THEN [err |-> TRUE, scheme |-> "", rest |-> ""]
               ELSE [err |-> FALSE, scheme |-> SubSeq(rawURL, 1, i - 1), rest |-> From(rawURL, i + 1)]

\* url.validOptionalPort(port): "" or ":" followed by digits only
ValidOptionalPort(port) ==
    port = "" \/ (Char(port, 1) = ":" /\ \A i \in 2..Len(port) : IsDigit(Char(port, i)))

\* the characters url.shouldEscape(c, encodeHost) lets stand in a host
HostChar(c) ==
    IsAlnum(c) \/ c \in {"!", "$", "&", "'", "(", ")", "*", "+", ",", ";", "=", ":",
                         "[", "]", "<", ">", "\"", "-", "_", ".", "~", "%"}

\* url.parseAuthority / url.parseHost for an authority without userinfo and
\* without an IP literal: TRUE when the authority is rejected
BadAuthority(authority) ==
    LET i == LastIndex(authority, ":")
    IN \/ (i # 0 /\ ~ValidOptionalPort(From(authority, i)))
       \/ \E k \in 1..Len(authority) : ~HostChar(Char(authority, k))
       \/ Unescape(authority, "host").err

\* strings.Cut(s, sep) for a one-character sep: the text before the first sep
Before(s, sep) == IF Contains(s, sep) THEN SubSeq(s, 1, Index(s, sep) - 1) ELSE s

\* strings.Cut(s, sep) for a one-character sep: the text after the first sep
After(s, sep) == IF Contains(s, sep) THEN From(s, Index(s, sep) + 1) ELSE ""

\* url.URL.setPath(p): [err |-> BOOLEAN, Path |-> the unescaped path]
ParseError == [err |-> TRUE, Path |-> ""]

SetPath(p) ==
    IF Unescape(p, "path").err THEN ParseError
    ELSE [err |-> FALSE, Path |-> Unescape(p, "path").val]

\* url.parse: the authority and the path, given "//" authority [ "/" path ]
ParseAuthority(afterSlashes) ==
    IF BadAuthority(Before(afterSlashes, "/")) THEN ParseError
    ELSE IF Contains(afterSlashes, "/")
    THEN SetPath(From(afterSlashes, Index(afterSlashes, "/")))
    ELSE SetPath("")

\* url.parse: what follows the scheme and precedes the query
ParseRest(scheme, rest) ==
    IF ~HasPrefix(rest, "/") /\ scheme # ""
    THEN [err |-> FALSE, Path |-> ""]              \* opaque: u.Opaque = rest
    ELSE IF ~HasPrefix(rest, "/") /\ Contains(Before(rest, "/"), ":")
    THEN ParseError                                \* first path segment has a colon
    ELSE IF (scheme # "" \/ ~HasPrefix(rest, "///")) /\ HasPrefix(rest, "//")
    THEN ParseAuthority(From(rest, 3))
    ELSE SetPath(rest)

ParseScheme(sc) == IF sc.err THEN ParseError ELSE ParseRest(sc.scheme, Before(sc.rest, "?"))

\* url.parse(rawURL, viaRequest = false) after the fragment is cut off:
\* [err |-> BOOLEAN, Path |-> u.Path]
ParseNoFragment(u) ==
    IF u = "*" THEN [err |-> FALSE, Path |-> "*"] ELSE ParseScheme(GetScheme(u))

\* url.setFragment
SetFragment(p, frag) == IF ~p.err /\ Unescape(frag, "fragment").err THEN ParseError ELSE p

\* url.Parse(rawURL): the fragment is cut at the first "#", the rest parsed,
\* then the fragment unescaped
URLParse(rawURL) == SetFragment(ParseNoFragment(Before(rawURL, "#")), After(rawURL, "#"))

RECURSIVE QueryEscape(_)
\* url.QueryEscape(s): letters, digits and - _ . ~ stand, a space becomes
\* "+", every other byte becomes %XX in upper-case hex
QueryEscape(s) ==
    IF s = "" THEN ""
    ELSE LET c == Char(s, 1)
         IN (IF IsAlnum(c) \/ c \in {"-", "_", ".", "~"} THEN c
             ELSE IF c = " " THEN "+"
             ELSE "%" \o Char(UpperHex, (Ord(c) \div 16) + 1) \o Char(UpperHex, (Ord(c) % 16) + 1))
            \o QueryEscape(Tail(s))

RECURSIVE TrimTrailingSlashes(_)
TrimTrailingSlashes(path) ==
    IF path # "" /\ Char(path, Len(path)) = "/"
    THEN TrimTrailingSlashes(SubSeq(path, 1, Len(path) - 1))
    ELSE path

\* filepath.Base(path) with "/" as the separator: "." for the empty path,
\* "/" for a path of slashes only, else the last element
Base(path) ==
    IF path = "" THEN "."
    ELSE LET p == TrimTrailingSlashes(path)
         IN IF p = "" THEN "/" ELSE From(p, LastIndex(p, "/") + 1)

Digits == "0123456789"
D2(n) == Char(Digits, ((n \div 10) % 10) + 1) \o Char(Digits, (n % 10) + 1)
D4(n) == D2(n \div 100) \o D2(n % 100)

\* time.Time.Format("2006-01-02T15:04:05Z") of the instant t in a zone
\* `offset` seconds east of UTC: the zone's wall clock, followed by the
\* layout's literal "Z"
TimeFormat(t, offset) ==
    LET wall == t + offset
        secs == wall % 86400
        z == (wall \div 86400) + 719468
        era == z \div 146097
        doe == z - era * 146097
        yoe == (doe - (doe \div 1460) + (doe \div 36524) - (doe \div 146096)) \div 365
        doy == doe - (365 * yoe + (yoe \div 4) - (yoe \div 100))
        mp == (5 * doy + 2) \div 153
        d == doy - ((153 * mp + 2) \div 5) + 1
        m == IF mp < 10 THEN mp + 3 ELSE mp - 9
        y == yoe + era * 400 + (IF m <= 2 THEN 1 ELSE 0)
    IN D4(y) \o "-" \o D2(m) \o "-" \o D2(d) \o "T" \o D2(secs \div 3600) \o ":"
       \o D2((secs \div 60) % 60) \o ":" \o D2(secs % 60) \o "Z"

-----------------------------------------------------------------------------
(* encoding/base64 and crypto/hmac.                                        *)

B64 == "ABCDEFGHIJKLMNOPQRSTUVWXYZabcdefghijklmnopqrstuvwxyz0123456789+/"

B64Val(s, i) == IF i <= Len(s) /\ Contains(B64, Char(s, i)) THEN Index(B64, Char(s, i)) - 1 ELSE 0
B64Ok(s, i) == i <= Len(s) /\ Contains(B64, Char(s, i))

RECURSIVE Base64DecodeString(_)
\* base64.StdEncoding.DecodeString(s): [err |-> BOOLEAN, bytes |-> the bytes
\* decoded before the error]. The encoding is padded and not strict: the
\* unused low bits of the last character of a padded quantum are dropped
\* unchecked. After a complete padded quantum, trailing input is an error
\* but the quantum's bytes are still returned.
Base64DecodeString(s) ==
    IF s = "" THEN [err |-> FALSE, bytes |-> <<>>]
    ELSE LET k == IF ~B64Ok(s, 1) THEN 0 ELSE IF ~B64Ok(s, 2) THEN 1
                  ELSE IF ~B64Ok(s, 3) THEN 2 ELSE IF ~B64Ok(s, 4) THEN 3 ELSE 4
             val == B64Val(s, 1) * 262144 + B64Val(s, 2) * 4096 + B64Val(s, 3) * 64 + B64Val(s, 4)
             b0 == (val \div 65536) % 256
             b1 == (val \div 256) % 256
             b2 == val % 256
             bad == [err |-> TRUE, bytes |-> <<>>]
         IN IF k = 4
            THEN LET r == Base64DecodeString(From(s, 5))
                 IN [err |-> r.err, bytes |-> <<b0, b1, b2>> \o r.bytes]
            ELSE IF Len(s) = k THEN bad
            ELSE IF Char(s, k + 1) # "=" THEN bad
            ELSE IF k < 2 THEN bad
            ELSE IF k = 2
            THEN IF Len(s) < 4 \/ Char(s, 4) # "=" THEN bad
                 ELSE [err |-> Len(s) > 4, bytes |-> <<b0>>]
            ELSE [err |-> Len(s) > 4, bytes |-> <<b0, b1>>]

RECURSIVE StripTrailingZeros(_)
StripTrailingZeros(bytes) ==
    IF bytes # <<>> /\ bytes[Len(bytes)] = 0
    THEN StripTrailingZeros(SubSeq(bytes, 1, Len(bytes) - 1))
    ELSE bytes

\* hmac.New(sha256.New, key) / Write(msg) / Sum(nil): the digest is kept as
\* the pair it is a function of. A key of at most 64 bytes is padded with
\* zero bytes to the block size, so trailing zero bytes of the key do not
\* matter; no other two pairs are taken to collide.
HmacSha256(key, msg) == [hmacKey |-> StripTrailingZeros(key), msg |-> msg]

\* base64.StdEncoding.EncodeToString(digest), kept as the digest it encodes
Base64EncodeToString(digest) == [base64 |-> digest]

\* url.QueryEscape of a signature, kept as the signature it escapes
QueryEscapeSig(sig) == [escaped |-> sig]

-----------------------------------------------------------------------------
(* The configuration holder and the URL builder.                           *)

ExpireTime == 3600
ResourceType == "b"
Permission == "r"

\* New: the Azure File adapter
New(account, accessKey, rootURL, containerName, apiVersion) ==
    [kind |-> "File", Account |-> account, AccessKey |-> accessKey, RootURL |-> rootURL,
     ContainerName |-> containerName, APIVersion |-> apiVersion,
     Region |-> "", BucketName |-> "", BasePath |-> "", ACL |-> ""]

\* NewS3: the S3 adapter (the session is the provider client's)
NewS3(region, bucketName, basePath, acl) ==
    [kind |-> "s3Manager", Account |-> "", AccessKey |-> "", RootURL |-> "",
     ContainerName |-> "", APIVersion |-> "",
     Region |-> region, BucketName |-> bucketName, BasePath |-> basePath, ACL |-> acl]

FileGetURL(c) == Sprintf(c.RootURL, <<c.Account, c.ContainerName>>)

S3GetURL(s) == Sprintf("https://%s.%s.amazonaws.com/%s", <<s.BucketName, s.Region, s.BasePath>>)

\* IFile.GetURL
GetURL(c) == IF c.kind = "File" THEN FileGetURL(c) ELSE S3GetURL(c)

\* a string to sign whose blob path leaves the container out
StringToSign_NoContainer(c, expiryTime, fileName) ==
    LET blobPath == Sprintf("/%s/%s", <<c.Account, fileName>>)
        queryParams == <<Permission, "", expiryTime, blobPath, "", c.APIVersion, "", "", "", "", "">>
    IN Join(queryParams, "\n")

\* a string to sign of ten fields: the last empty field is left out
StringToSign_TenFields(c, expiryTime, fileName) ==
    LET blobPath == Sprintf("/%s/%s/%s", <<c.Account, c.ContainerName, fileName>>)
        queryParams == <<Permission, "", expiryTime, blobPath, "", c.APIVersion, "", "", "", "">>
    IN Join(queryParams, "\n")

\* the string File.GenerateSharedAccessSignature signs
StringToSign(c, expiryTime, fileName) ==
    LET blobPath == Sprintf("/%s/%s/%s", <<c.Account, c.ContainerName, fileName>>)
        queryParams == <<Permission, "", expiryTime, blobPath, "", c.APIVersion, "", "", "", "", "">>
    IN Join(queryParams, "\n")

\* File.GenerateSharedAccessSignature: the error of the decoding is dropped
FileGenerateSharedAccessSignature(c, expiryTime, fileName) ==
    LET toSign == StringToSign(c, expiryTime, fileName)
        decodeAccessKey == Base64DecodeString(c.AccessKey).bytes
    IN Base64EncodeToString(HmacSha256(decodeAccessKey, toSign))

\* A URL the builder returns: the Go string is text, followed when sig is
\* <<e>> by the escaped signature e, followed by tail.
PlainURL(text) == [text |-> text, sig |-> <<>>, tail |-> ""]

\* a builder that puts no "/" between the base URL and the key
FileGetBlobURL_NoSlash(c, fileName, withSignature, t, offset) ==
    IF fileName = "" THEN PlainURL(fileName)
    ELSE PlainURL(Sprintf("%s%s", <<FileGetURL(c), fileName>>))

\* File.GetBlobURL, called when time.Now() is t in a zone `offset` east of UTC
FileGetBlobURL(c, fileName, withSignature, t, offset) ==
    IF fileName = "" THEN PlainURL(fileName)
    ELSE IF ~withSignature THEN PlainURL(Sprintf("%s/%s", <<FileGetURL(c), fileName>>))
    ELSE LET expiryTime == TimeFormat(t + ExpireTime, offset)
             sig == FileGenerateSharedAccessSignature(c, expiryTime, fileName)
             before == <<"se=" \o QueryEscape(expiryTime), "sr=" \o ResourceType,
                         "sp=" \o Permission, "sig=">>
             after == <<"", "sv=" \o QueryEscape(c.APIVersion)>>
         IN [text |-> Sprintf("%s/%s?%s", <<FileGetURL(c), fileName, Join(before, "&")>>),
             sig |-> <<QueryEscapeSig(sig)>>,
             tail |-> Join(after, "&")]

\* s3Manager.GetBlobURL: withSignature is not read
S3GetBlobURL(s, fileName, withSignature, t, offset) ==
    PlainURL(Sprintf("%s%s", <<S3GetURL(s), fileName>>))

\* IFile.GetBlobURL
GetBlobURL(c, fileName, withSignature, t, offset) ==
    IF c.kind = "File" THEN FileGetBlobURL(c, fileName, withSignature, t, offset)
    ELSE S3GetBlobURL(c, fileName, withSignature, t, offset)

\* File.GetFileName
FileGetFileName(c, blobUrl) ==
    LET u == URLParse(blobUrl)
    IN IF u.err THEN blobUrl
       ELSE TrimPrefix(u.Path, "/" \o c.ContainerName \o "/")

\* s3Manager.GetFileName
S3GetFileName(s, blobUrl) == Base(blobUrl)

\* IFile.GetFileName
GetFileName(c, blobUrl) ==
    IF c.kind = "File" THEN FileGetFileName(c, blobUrl) ELSE S3GetFileName(c, blobUrl)

-----------------------------------------------------------------------------
(* net/http content sniffing and url.PathEscape.                           *)

IsPrefixOf(sig, data) == Len(data) >= Len(sig) /\ SubSeq(data, 1, Len(sig)) = sig

\* the bytes http.DetectContentType skips before a signature that allows
\* leading white space: \t \n \f \r and the space
IsWS(b) == b \in {9, 10, 12, 13, 32}

\* the bytes that make a content binary for the text/plain signature
IsBinaryByte(b) == b <= 8 \/ b = 11 \/ (14 <= b /\ b <= 26) \/ (28 <= b /\ b <= 31)

RECURSIVE SkipWS(_)
SkipWS(data) == IF data # <<>> /\ IsWS(data[1]) THEN SkipWS(Tail(data)) ELSE data

\* http.DetectContentType(data) for the signatures made of the bytes below:
\* PDF, the byte order marks, GIF, PNG, JPEG, then text or binary
DetectContentType(data) ==
    IF IsPrefixOf(<<37, 80, 68, 70, 45>>, data) THEN "application/pdf"
    ELSE IF Len(data) >= 4 /\ SubSeq(data, 1, 2) = <<254, 255>> THEN "text/plain; charset=utf-16be"
    ELSE IF Len(data) >= 4 /\ SubSeq(data, 1, 2) = <<255, 254>> THEN "text/plain; charset=utf-16le"
    ELSE IF Len(data) >= 4 /\ SubSeq(data, 1, 3) = <<239, 187, 191>> THEN "text/plain; charset=utf-8"
    ELSE IF IsPrefixOf(<<71, 73, 70, 56, 55, 97>>, data) THEN "image/gif"
    ELSE IF IsPrefixOf(<<71, 73, 70, 56, 57, 97>>, data) THEN "image/gif"
    ELSE IF IsPrefixOf(<<137, 80, 78, 71, 13, 10, 26, 10>>, data) THEN "image/png"
    ELSE IF IsPrefixOf(<<255, 216, 255>>, data) THEN "image/jpeg"
    ELSE IF \A i \in 1..Len(SkipWS(data)) : ~IsBinaryByte(SkipWS(data)[i])
    THEN "text/plain; charset=utf-8"
    ELSE "application/octet-stream"

RECURSIVE PathEscape(_)
\* url.PathEscape(s): letters, digits, - _ . ~ and $ & + : = @ stand, every
\* other byte (the "/" too) becomes %XX
PathEscape(s) ==
    IF s = "" THEN ""
    ELSE LET c == Char(s, 1)
         IN (IF IsAlnum(c) \/ c \in {"-", "_", ".", "~", "$", "&", "+", ":", "=", "@"} THEN c
             ELSE "%" \o Char(UpperHex, (Ord(c) \div 16) + 1) \o Char(UpperHex, (Ord(c) % 16) + 1))
            \o PathEscape(Tail(s))

-----------------------------------------------------------------------------
(* The providers: an Azure container and an S3 bucket, as the vendored     *)
(* clients show them to the adapters.                                      *)

\* every key an object can be stored under, in the provider's listing order
StorageOrder == <<"d/k", "img/d/k", "img/k", "k">>

Object(data, contentType) == [data |-> data, contentType |-> contentType]

Put(st, key, obj) == [k \in DOMAIN st \cup {key} |-> IF k = key THEN obj ELSE st[k]]
Remove(st, key) == [k \in DOMAIN st \ {key} |-> st[k]]

\* the keys under a prefix, in the provider's order
Listing(st, prefix) ==
    SelectSeq(StorageOrder, LAMBDA k : k \in DOMAIN st /\ HasPrefix(k, prefix))

Min(a, b) == IF a <= b THEN a ELSE b

\* azblob.Marker: Val is <<>> for the nil pointer of the zero Marker, <<0>>
\* for the empty string that ends a listing, <<n>> for the token of the
\* page that starts after n keys
ZeroMarker == [Val |-> <<>>]
NotDone(marker) == marker.Val = <<>> \/ marker.Val # <<0>>

\* containerURL.ListBlobsFlatSegment(ctx, marker, {Prefix: prefix})
ListBlobsFlatSegment(st, marker, prefix) ==
    LET from == IF marker.Val = <<>> THEN 0 ELSE marker.Val[1]
        to == Min(from + PageSize, Len(Listing(st, prefix)))
    IN [BlobItems |-> SubSeq(Listing(st, prefix), from + 1, to),
        NextMarker |-> [Val |-> IF to < Len(Listing(st, prefix)) THEN <<to>> ELSE <<0>>]]

\* svc.ListObjectsV2({Bucket, Prefix}): the first page of the listing
ListObjectsV2(st, prefix) ==
    [Contents |-> SubSeq(Listing(st, prefix), 1, Min(PageSize, Len(Listing(st, prefix)))),
     IsTruncated |-> Len(Listing(st, prefix)) > PageSize]

\* how S3 reads the CopySource of CopyObject: URL-decoded, "<bucket>/<key>"
CopySourceOf(copySource) ==
    LET decoded == Unescape(copySource, "path")
    IN IF decoded.err \/ ~Contains(TrimPrefix(decoded.val, "/"), "/")
       THEN [ok |-> FALSE, bucket |-> "", key |-> ""]
       ELSE [ok |-> TRUE, bucket |-> Before(TrimPrefix(decoded.val, "/"), "/"),
             key |-> After(TrimPrefix(decoded.val, "/"), "/")]

-----------------------------------------------------------------------------
(* The inputs the specifications draw from.                                *)

RootURLTemplate == "https://%s.blob.core.windows.net/%s"

FileInstances ==
    {New("acct", "MDA=", RootURLTemplate, containerName, "2014-02-14") :
        containerName \in {"pics", "k"}}

S3Instances ==
    {NewS3("r1", "bkt", basePath, "private") : basePath \in {"", "img/"}}

Instances == FileInstances \cup S3Instances

\* 1970-01-01T00:00:00Z, 2023-12-31T23:00:00Z, 2024-02-29T22:59:59Z
Instants == {0, 1704063600, 1709247599}

\* UTC and UTC+7
Zones == {0, 25200}

KeyAlphabet == {"k", "/", "?", "#", "%", "4"}
FileNames == Strs(KeyAlphabet, MaxKeyLen)

RawAlphabet == KeyAlphabet \cup {":"}
RawURLs == Strs(RawAlphabet, MaxRawLen)

\* secret keys: canonical base64, non-canonical padding bits ("QR=="), zero
\* bytes ("AA==", "AAA="), and strings that are not base64
SecretKeys == {"", "MDA=", "MDAw", "QQ==", "QR==", "AA==", "AAA=", "QUJD",
               "!", "MDA", "QQ==x", "QUJDQQ"}

SignInstances ==
    {New(account, accessKey, RootURLTemplate, containerName, apiVersion) :
        account \in {"acct", "acc"}, accessKey \in SecretKeys,
        containerName \in {"pics", "k"}, apiVersion \in {"2014-02-14", "2015-04-05"}}

ExpiryTimes == {"2024-01-01T00:00:00Z", "2024-01-01T00:00:01Z"}
SignedNames == {"a/b.png", "b.png"}

NoBlob == [called |-> FALSE, fileName |-> "", withSignature |-> FALSE, ret |-> PlainURL("")]
NoName == [called |-> FALSE, from |-> "", blobUrl |-> "", ret |-> ""]
NoSign == [called |-> FALSE, c |-> New("", "", "", "", ""), expiryTime |-> "", fileName |-> "",
           changed |-> "", ret |-> Base64EncodeToString(HmacSha256(<<>>, ""))]
EmptyStore == [k \in {} |-> Object(<<>>, "")]
StoreInstances ==
    { New("acct", k, RootURLTemplate, "pics", "2014-02-14") : k \in {"MDA=", "!"} }
        \cup { NewS3("r1", "d", p, "private") : p \in {"", "img/"} }
FilePaths == {"k", "d/k"}
Prefixes == {"", "d/"}
\* the empty content, the PNG magic number, one NUL byte
Payloads == {<<>>, <<137, 80, 78, 71, 13, 10, 26, 10>>, <<0>>}
ContentTypes == {"", "image/gif"}
Faults == 0..2
\* two errors a provider call can fail with
ProviderErrors == {"RequestTimeout", "AccessDenied"}
\* what can happen around an invocation
Runs ==
    {env \in [fails : Faults, perr : ProviderErrors, done : 0..2] :
        env.fails = 0 => env.perr = "RequestTimeout"}
NoCall ==
    [op |-> "none", filePath |-> "", contentType |-> "", buffBytes |-> <<>>, prefix |-> "",
     newPath |-> "", tempPath |-> "", url |-> "", file |-> <<>>, list |-> <<>>,
     err |-> "", fault |-> FALSE, expiryTime |-> "", sig |-> <<>>, panic |-> "",
     done |-> 0, calls |-> <<>>]

urlIdle == blob = NoBlob /\ fname = NoName
signIdle == sigA = NoSign /\ sigB = NoSign
storeIdle == store = EmptyStore /\ copying = {} /\ call = NoCall

\* the invocations that run concurrently
Procs == {"p", "q"}
NoProc == [pc |-> "idle", filePath |-> "", fd |-> 0, body |-> <<>>, file |-> <<>>, err |-> ""]
\* a directory without files: no name, no inode
EmptyFS == [names |-> [n \in {} |-> 0], data |-> [i \in {} |-> <<>>]]
dlIdle == procs = [p \in Procs |-> NoProc] /\ fs = EmptyFS

-----------------------------------------------------------------------------
(* The storage operations of the two adapters.  Each takes the provider's  *)
(* objects st, its pending copies pend and env, what happens around this   *)
(* invocation: env.fails is the number of the provider call that fails     *)
(* (0: none) and env.perr the error it fails with; env.done is the number  *)
(* of the provider call before which the caller's context is done          *)
(* (0: not during the invocation).  Each yields what the handler returns,  *)
(* the objects it leaves and the provider calls it has made.               *)

\* what a handler leaves and returns; fault tells that a call of the
\* provider (or of the local file system) failed without it being the
\* provider's answer to the request; calls are the provider calls made
Outcome(st, pend, url, file, list, err, fault, calls) ==
    [st |-> st, pend |-> pend, url |-> url, file |-> file, list |-> list,
     err |-> err, fault |-> fault, calls |-> calls]

Failed(st, pend, err, fault, calls) == Outcome(st, pend, "", <<>>, <<>>, err, fault, calls)

\* the nth provider call of the invocation: a call that is given the
\* caller's context ends with the context's error once the context is done,
\* a call that is not given it runs on; answer is the provider's own answer
ProviderCall(name, nth, ctx, env, answer) ==
    [name |-> name, ctx |-> ctx,
     err |-> IF ctx /\ env.done # 0 /\ env.done <= nth THEN "context canceled"
             ELSE IF env.fails = nth THEN env.perr
             ELSE answer,
     fault |-> (ctx /\ env.done # 0 /\ env.done <= nth) \/ env.fails = nth]

\* File.GetContainer: the credential needs a base64 account key, the
\* container URL has to parse
FileGetContainer(c) ==
    [err |-> IF Base64DecodeString(c.AccessKey).err THEN "illegal base64 data"
             ELSE IF URLParse(FileGetURL(c)).err THEN "parse" ELSE "",
     URL |-> FileGetURL(c)]

S3GetContainer(s) == [panic |-> "not implement"]

S3GenerateSharedAccessSignature(s, expiryTime, fileName) == [panic |-> "not implement"]

\* c.GetContainer() and c.GetBlobURL(filePath, false) of the instances and
\* paths of SpecStore, computed once
Containers == [c \in {i \in StoreInstances : i.kind = "File"} |-> FileGetContainer(c)]
BlobURLs == [c \in StoreInstances, filePath \in FilePaths |->
                GetBlobURL(c, filePath, FALSE, 0, 0).text]

NotFound(st, key, answer) == IF key \in DOMAIN st THEN "" ELSE answer

FileUpload(c, st, pend, filePath, contentType, buffBytes, env) ==
    LET up == ProviderCall("BlockBlobURL.Upload", 1, TRUE, env, "")
    IN IF Containers[c].err # "" THEN Failed(st, pend, Containers[c].err, FALSE, <<>>)
       ELSE IF up.err # "" THEN Failed(st, pend, up.err, up.fault, <<up>>)
       ELSE Outcome(Put(st, filePath,
                        Object(buffBytes, IF contentType = "" THEN DetectContentType(buffBytes)
                                          ELSE contentType)),
                    pend, BlobURLs[c, filePath], <<>>, <<>>, "", FALSE, <<up>>)

S3Upload(s, st, pend, filePath, contentType, buffBytes, env) ==
    LET put == ProviderCall("PutObject", 1, FALSE, env, "")
    IN IF put.err # "" THEN Failed(st, pend, put.err, put.fault, <<put>>)
       ELSE Outcome(Put(st, Sprintf("%s%s", <<s.BasePath, filePath>>),
                        Object(buffBytes, contentType)),
                    pend, BlobURLs[s, filePath], <<>>, <<>>, "", FALSE, <<put>>)

FileDelete(c, st, pend, filePath, env) ==
    LET del == ProviderCall("BlobURL.Delete", 1, TRUE, env, NotFound(st, filePath, "BlobNotFound"))
    IN IF Containers[c].err # "" THEN Failed(st, pend, Containers[c].err, FALSE, <<>>)
       ELSE IF del.err # "" THEN Failed(st, pend, del.err, del.fault, <<del>>)
       ELSE Outcome(Remove(st, filePath), pend, BlobURLs[c, filePath],
                    <<>>, <<>>, "", FALSE, <<del>>)

\* a Delete that returns the URL whatever the waiter answers
S3Delete_WaiterIgnored(s, st, pend, filePath, env) ==
    LET del == ProviderCall("DeleteObject", 1, FALSE, env, "")
        wait == ProviderCall("WaitUntilObjectNotExists", 2, FALSE, env, "")
    IN IF del.err # "" THEN Failed(st, pend, del.err, del.fault, <<del>>)
       ELSE Outcome(Remove(st, filePath), pend, BlobURLs[s, filePath],
                    <<>>, <<>>, "", FALSE, <<del, wait>>)

\* DeleteObject answers success for a key that is absent as well; the waiter
\* then polls HeadObject until it answers 404
S3Delete(s, st, pend, filePath, env) ==
    LET del == ProviderCall("DeleteObject", 1, FALSE, env, "")
        wait == ProviderCall("WaitUntilObjectNotExists", 2, FALSE, env, "")
    IN IF del.err # "" THEN Failed(st, pend, del.err, del.fault, <<del>>)
       ELSE IF wait.err # ""
       THEN Failed(Remove(st, filePath), pend, wait.err, wait.fault, <<del, wait>>)
       ELSE Outcome(Remove(st, filePath), pend, BlobURLs[s, filePath],
                    <<>>, <<>>, "", FALSE, <<del, wait>>)

RECURSIVE FileListLoop(_, _, _, _, _, _)
\* the for loop of File.GetListBlob; calls are the calls made so far
FileListLoop(st, prefix, marker, list, calls, env) ==
    LET seg == ProviderCall("ListBlobsFlatSegment", Len(calls) + 1, TRUE, env, "")
    IN IF ~NotDone(marker) THEN [list |-> list, err |-> "", fault |-> FALSE, calls |-> calls]
       ELSE IF seg.err # ""
       THEN [list |-> list, err |-> seg.err, fault |-> seg.fault, calls |-> Append(calls, seg)]
       ELSE FileListLoop(st, prefix, ListBlobsFlatSegment(st, marker, prefix).NextMarker,
                         list \o ListBlobsFlatSegment(st, marker, prefix).BlobItems,
                         Append(calls, seg), env)

FileGetListBlob(c, st, pend, prefix, env) ==
    IF Containers[c].err # "" THEN Failed(st, pend, Containers[c].err, FALSE, <<>>)
    ELSE LET r == FileListLoop(st, prefix, ZeroMarker, <<>>, <<>>, env)
         IN Outcome(st, pend, "", <<>>, r.list, r.err, r.fault, r.calls)

S3GetListBlob(s, st, pend, prefix, env) ==
    LET ls == ProviderCall("ListObjectsV2", 1, FALSE, env, "")
    IN IF ls.err # "" THEN Failed(st, pend, ls.err, ls.fault, <<ls>>)
       ELSE Outcome(st, pend, "", <<>>, ListObjectsV2(st, prefix).Contents, "", FALSE, <<ls>>)

\* the body is closed before ioutil.ReadAll reads it: the read of a closed
\* body fails, except for the empty body, which answers EOF
FileDownload(c, st, pend, filePath, env) ==
    LET get == ProviderCall("BlobURL.Download", 1, TRUE, env, NotFound(st, filePath, "BlobNotFound"))
    IN IF Containers[c].err # "" THEN Failed(st, pend, Containers[c].err, FALSE, <<>>)
       ELSE IF get.err # "" THEN Failed(st, pend, get.err, get.fault, <<get>>)
       ELSE IF st[filePath].data = <<>> THEN Outcome(st, pend, "", <<>>, <<>>, "", FALSE, <<get>>)
       ELSE Failed(st, pend, "http: read on closed response body", FALSE, <<get>>)

\* env.fails = 2 is the failure of os.Create of the temporary file
S3Download(s, st, pend, filePath, env) ==
    LET get == ProviderCall("DownloadWithContext", 1, TRUE, env, NotFound(st, filePath, "NoSuchKey"))
    IN IF env.fails = 2 THEN Failed(st, pend, "os.Create " \o Base(filePath), TRUE, <<>>)
       ELSE IF get.err # "" THEN Failed(st, pend, get.err, get.fault, <<get>>)
       ELSE Outcome(st, pend, "", st[filePath].data, <<>>, "", FALSE, <<get>>)

\* the answer of the provider to StartCopyFromURL
StartCopyAnswer(st, pend, newPath, tempPath) ==
    IF tempPath \notin DOMAIN st THEN "BlobNotFound"
    ELSE IF \E p \in pend : p.dest = newPath THEN "PendingCopyOperation"
    ELSE ""

\* StartCopyFromURL is accepted with the copy either done (sync) or pending;
\* the handler returns on the acceptance
FileCopy(c, st, pend, newPath, tempPath, env, sync) ==
    LET start == ProviderCall("StartCopyFromURL", 1, TRUE, env,
                              StartCopyAnswer(st, pend, newPath, tempPath))
    IN IF Containers[c].err # "" THEN Failed(st, pend, Containers[c].err, FALSE, <<>>)
       ELSE IF start.err # "" THEN Failed(st, pend, start.err, start.fault, <<start>>)
       ELSE IF sync
       THEN Outcome(Put(st, newPath, st[tempPath]), pend, "", <<>>, <<>>, "", FALSE, <<start>>)
       ELSE Outcome(st, pend \cup {[dest |-> newPath, obj |-> st[tempPath]]},
                    "", <<>>, <<>>, "", FALSE, <<start>>)

\* the answer of S3 to CopyObject; it refuses the copy of an object onto
\* itself
CopyObjectAnswer(s, st, newPath, src) ==
    IF ~src.ok THEN "InvalidArgument"
    ELSE IF src.bucket # s.BucketName THEN "NoSuchBucket"
    ELSE IF src.key \notin DOMAIN st THEN "NoSuchKey"
    ELSE IF src.key = newPath THEN "InvalidRequest"
    ELSE ""

S3Copy(s, st, pend, newPath, tempPath, env) ==
    LET src == CopySourceOf(PathEscape(tempPath))
        copy == ProviderCall("CopyObject", 1, FALSE, env, CopyObjectAnswer(s, st, newPath, src))
        wait == ProviderCall("WaitUntilObjectExists", 2, FALSE, env, "")
    IN IF copy.err # "" THEN Failed(st, pend, copy.err, copy.fault, <<copy>>)
       ELSE IF wait.err # ""
       THEN Failed(Put(st, newPath, st[src.key]), pend, wait.err, wait.fault, <<copy, wait>>)
       ELSE Outcome(Put(st, newPath, st[src.key]), pend, "", <<>>, <<>>, "", FALSE,
                    <<copy, wait>>)

-----------------------------------------------------------------------------
(* SpecURL: a caller of the URL builder of one adapter instance.           *)

InitURL ==
    /\ inst \in Instances
    /\ now \in Instants
    /\ tz \in Zones
    /\ urlIdle /\ signIdle /\ storeIdle /\ dlIdle

\* the caller calls GetBlobURL(fileName, withSignature)
CallGetBlobURL ==
    /\ urlIdle
    /\ \E fileName \in FileNames, withSignature \in BOOLEAN :
          blob' = [called |-> TRUE, fileName |-> fileName, withSignature |-> withSignature,
                   ret |-> GetBlobURL(inst, fileName, withSignature, now, tz)]
    /\ fname' = NoName
    /\ UNCHANGED <<dlVars, inst, now, tz, signVars, storeVars>>

\* the caller passes the unsigned URL it got from GetBlobURL to GetFileName
CallGetFileNameOfBlobURL ==
    /\ blob.called /\ blob.ret.sig = <<>> /\ ~fname.called
    /\ fname' = [called |-> TRUE, from |-> "GetBlobURL", blobUrl |-> blob.ret.text,
                 ret |-> GetFileName(inst, blob.ret.text)]
    /\ UNCHANGED <<dlVars, inst, now, tz, blob, signVars, storeVars>>

\* the caller passes a string of its own to GetFileName
CallGetFileName ==
    /\ urlIdle
    /\ \E blobUrl \in RawURLs :
          fname' = [called |-> TRUE, from |-> "caller", blobUrl |-> blobUrl,
                    ret |-> GetFileName(inst, blobUrl)]
    /\ blob' = NoBlob
    /\ UNCHANGED <<dlVars, inst, now, tz, signVars, storeVars>>

\* the caller is done with the values it got
ForgetURL ==
    /\ ~urlIdle
    /\ blob' = NoBlob /\ fname' = NoName
    /\ UNCHANGED <<dlVars, inst, now, tz, signVars, storeVars>>

\* time passes between two calls
Tick ==
    /\ urlIdle
    /\ \E t \in Instants : t > now /\ now' = t
    /\ UNCHANGED <<dlVars, inst, tz, urlVars, signVars, storeVars>>

NextURL == CallGetBlobURL \/ CallGetFileNameOfBlobURL \/ CallGetFileName \/ ForgetURL \/ Tick

SpecURL == InitURL /\ [][NextURL]_vars

-----------------------------------------------------------------------------
(* SpecSign: GenerateSharedAccessSignature on a File instance, then once   *)
(* more with exactly one of the six inputs changed (or none).              *)

SignFields == {"expiryTime", "fileName", "Account", "ContainerName", "APIVersion", "AccessKey"}

\* the values a field may be changed to
FieldValues(field) ==
    CASE field = "expiryTime" -> ExpiryTimes
      [] field = "fileName" -> SignedNames
      [] field = "Account" -> {c.Account : c \in SignInstances}
      [] field = "ContainerName" -> {c.ContainerName : c \in SignInstances}
      [] field = "APIVersion" -> {c.APIVersion : c \in SignInstances}
      [] field = "AccessKey" -> SecretKeys

\* the value of a field in a call
FieldOf(s, field) ==
    CASE field = "expiryTime" -> s.expiryTime
      [] field = "fileName" -> s.fileName
      [] OTHER -> s.c[field]

\* the call s with one field set to v
WithField(s, field, v) ==
    CASE field = "expiryTime" -> [s EXCEPT !.expiryTime = v]
      [] field = "fileName" -> [s EXCEPT !.fileName = v]
      [] OTHER -> [s EXCEPT !.c = [s.c EXCEPT ![field] = v]]

Signed(s, changed) ==
    [s EXCEPT !.called = TRUE, !.changed = changed,
              !.ret = FileGenerateSharedAccessSignature(s.c, s.expiryTime, s.fileName)]

InitSign ==
    /\ inst \in SignInstances
    /\ now \in {0}
    /\ tz \in {0}
    /\ urlIdle /\ signIdle /\ storeIdle /\ dlIdle

\* c.GenerateSharedAccessSignature(expiryTime, fileName) on the instance
SignFirst ==
    /\ ~sigA.called
    /\ \E expiryTime \in ExpiryTimes, fileName \in SignedNames :
          sigA' = Signed([NoSign EXCEPT !.c = inst, !.expiryTime = expiryTime,
                                         !.fileName = fileName], "")
    /\ UNCHANGED <<dlVars, inst, now, tz, urlVars, sigB, storeVars>>

\* the same call again, with the same inputs and configuration
SignAgain ==
    /\ sigA.called /\ ~sigB.called
    /\ sigB' = Signed(sigA, "none")
    /\ UNCHANGED <<dlVars, inst, now, tz, urlVars, sigA, storeVars>>

\* the call again with exactly one input or configuration field changed
SignChanged ==
    /\ sigA.called /\ ~sigB.called
    /\ \E field \in SignFields :
          \E v \in FieldValues(field) \ {FieldOf(sigA, field)} :
             sigB' = Signed(WithField(sigA, field, v), field)
    /\ UNCHANGED <<dlVars, inst, now, tz, urlVars, sigA, storeVars>>

ForgetSign ==
    /\ sigA.called
    /\ sigA' = NoSign /\ sigB' = NoSign
    /\ UNCHANGED <<dlVars, inst, now, tz, urlVars, storeVars>>

NextSign == SignFirst \/ SignAgain \/ SignChanged \/ ForgetSign

SpecSign == InitSign /\ [][NextSign]_vars

-----------------------------------------------------------------------------
(* SpecStore: one caller of the storage operations of one adapter          *)
(* instance, and the provider finishing the copies it has accepted.        *)

\* IFile: the call goes to the adapter the instance is
Upload(c, st, pend, filePath, contentType, buffBytes, env) ==
    IF c.kind = "File" THEN FileUpload(c, st, pend, filePath, contentType, buffBytes, env)
    ELSE S3Upload(c, st, pend, filePath, contentType, buffBytes, env)

Delete(c, st, pend, filePath, env) ==
    IF c.kind = "File" THEN FileDelete(c, st, pend, filePath, env)
    ELSE S3Delete(c, st, pend, filePath, env)

GetListBlob(c, st, pend, prefix, env) ==
    IF c.kind = "File" THEN FileGetListBlob(c, st, pend, prefix, env)
    ELSE S3GetListBlob(c, st, pend, prefix, env)

Download(c, st, pend, filePath, env) ==
    IF c.kind = "File" THEN FileDownload(c, st, pend, filePath, env)
    ELSE S3Download(c, st, pend, filePath, env)

Copy(c, st, pend, newPath, tempPath, env, sync) ==
    IF c.kind = "File" THEN FileCopy(c, st, pend, newPath, tempPath, env, sync)
    ELSE S3Copy(c, st, pend, newPath, tempPath, env)

\* IFile.GetContainer: the container URL and the error, or the panic that
\* unwinds the caller's goroutine
GetContainer(c) ==
    IF c.kind = "File"
    THEN [URL |-> IF Containers[c].err = "" THEN Containers[c].URL ELSE "",
          err |-> Containers[c].err, panic |-> ""]
    ELSE [URL |-> "", err |-> "", panic |-> S3GetContainer(c).panic]

\* IFile.GenerateSharedAccessSignature: <<the signature>>, or the panic
GenerateSharedAccessSignature(c, expiryTime, fileName) ==
    IF c.kind = "File"
    THEN [sig |-> <<FileGenerateSharedAccessSignature(c, expiryTime, fileName)>>, panic |-> ""]
    ELSE [sig |-> <<>>, panic |-> S3GenerateSharedAccessSignature(c, expiryTime, fileName).panic]

\* the key Upload stores filePath under
UploadKey(c, filePath) ==
    IF c.kind = "File" THEN filePath ELSE Sprintf("%s%s", <<c.BasePath, filePath>>)

InitStore ==
    /\ inst \in StoreInstances
    /\ now = 0 /\ tz = 0
    /\ urlIdle /\ signIdle /\ storeIdle /\ dlIdle

\* the handler has returned r to the caller, who called it as args
Returns(args, r) ==
    /\ store' = r.st
    /\ copying' = r.pend
    /\ call' = [args EXCEPT !.url = r.url, !.file = r.file, !.list = r.list,
                            !.err = r.err, !.fault = r.fault, !.calls = r.calls]
    /\ UNCHANGED <<dlVars, inst, now, tz, urlVars, signVars>>

CallUpload ==
    /\ call = NoCall
    /\ \E filePath \in FilePaths, contentType \in ContentTypes, buffBytes \in Payloads,
          env \in Runs :
           Returns([NoCall EXCEPT !.op = "Upload", !.done = env.done, !.filePath = filePath,
                                  !.contentType = contentType, !.buffBytes = buffBytes],
                   Upload(inst, store, copying, filePath, contentType, buffBytes, env))

CallDelete ==
    /\ call = NoCall
    /\ \E filePath \in FilePaths, env \in Runs :
           Returns([NoCall EXCEPT !.op = "Delete", !.done = env.done, !.filePath = filePath],
                   Delete(inst, store, copying, filePath, env))

CallGetListBlob ==
    /\ call = NoCall
    /\ \E prefix \in Prefixes, env \in Runs :
           Returns([NoCall EXCEPT !.op = "GetListBlob", !.done = env.done, !.prefix = prefix],
                   GetListBlob(inst, store, copying, prefix, env))

CallDownload ==
    /\ call = NoCall
    /\ \E filePath \in FilePaths, env \in Runs :
           Returns([NoCall EXCEPT !.op = "Download", !.done = env.done, !.filePath = filePath],
                   Download(inst, store, copying, filePath, env))

CallCopy ==
    /\ call = NoCall
    /\ \E newPath \in FilePaths, tempPath \in FilePaths, env \in Runs, sync \in BOOLEAN :
           /\ sync \/ Cardinality(copying) < MaxPending
           /\ Returns([NoCall EXCEPT !.op = "Copy", !.done = env.done,
                                      !.newPath = newPath, !.tempPath = tempPath],
                      Copy(inst, store, copying, newPath, tempPath, env, sync))

CallGetContainer ==
    /\ call = NoCall
    /\ call' = [NoCall EXCEPT !.op = "GetContainer", !.url = GetContainer(inst).URL,
                              !.err = GetContainer(inst).err,
                              !.panic = GetContainer(inst).panic]
    /\ UNCHANGED <<dlVars, inst, now, tz, urlVars, signVars, store, copying>>

CallGenerateSharedAccessSignature ==
    /\ call = NoCall
    /\ \E expiryTime \in ExpiryTimes, fileName \in FilePaths :
           call' = [NoCall EXCEPT
                       !.op = "GenerateSharedAccessSignature",
                       !.expiryTime = expiryTime, !.filePath = fileName,
                       !.sig = GenerateSharedAccessSignature(inst, expiryTime, fileName).sig,
                       !.panic = GenerateSharedAccessSignature(inst, expiryTime, fileName).panic]
    /\ UNCHANGED <<dlVars, inst, now, tz, urlVars, signVars, store, copying>>

\* the provider finishes a pending copy: the destination gets the source
CompleteCopy ==
    /\ \E p \in copying :
           /\ store' = Put(store, p.dest, p.obj)
           /\ copying' = copying \ {p}
    /\ UNCHANGED <<dlVars, inst, now, tz, urlVars, signVars, call>>

\* the provider gives a pending copy up: the destination stays as it is
AbortCopy ==
    /\ \E p \in copying : copying' = copying \ {p}
    /\ UNCHANGED <<dlVars, inst, now, tz, urlVars, signVars, store, call>>

\* the caller has taken the result and is free to call again; a call that
\* panicked has returned nothing: the adapter recovers from no panic
Return ==
    /\ call # NoCall
    /\ call.panic = ""
    /\ call' = NoCall
    /\ UNCHANGED <<dlVars, inst, now, tz, urlVars, signVars, store, copying>>

NextStore ==
    \/ CallUpload \/ CallDelete \/ CallGetListBlob \/ CallDownload \/ CallCopy
    \/ CallGetContainer \/ CallGenerateSharedAccessSignature
    \/ CompleteCopy \/ AbortCopy \/ Return

SpecStore == InitStore /\ [][NextStore]_vars

-----------------------------------------------------------------------------
(* SpecDownload: two Download invocations of one adapter instance running  *)
(* concurrently on different keys, step by step; the temporary files of    *)
(* s3Manager.Download live in the working directory of the process.        *)

DownloadInstances ==
    {New("acct", "MDA=", RootURLTemplate, "pics", "2014-02-14"), NewS3("r1", "d", "", "private")}

\* the objects the provider holds: "k" and "d/k" have the same last segment
DownloadStore ==
    [key \in {"k", "d/k", "d/p"} |->
        Object(CASE key = "k" -> <<107>> [] key = "d/k" -> <<100, 107>> [] OTHER -> <<>>,
               "application/octet-stream")]

\* the inodes that are named in the directory or open in a process
Live(f, fds) == {f.names[n] : n \in DOMAIN f.names} \cup (fds \ {0})

\* the directory with the inodes nobody names or holds open dropped
Collect(f, fds) == [f EXCEPT !.data = [i \in DOMAIN f.data \cap Live(f, fds) |-> f.data[i]]]

\* os.Create(name): O_RDWR|O_CREATE|O_TRUNC; an existing file is truncated,
\* whoever has it open
OsCreate(f, name) ==
    IF name \in DOMAIN f.names
    THEN [fs |-> [f EXCEPT !.data[f.names[name]] = <<>>], fd |-> f.names[name]]
    ELSE LET ino == CHOOSE i \in 1..Cardinality(Procs) : i \notin DOMAIN f.data
         IN [fs |-> [names |-> [n \in DOMAIN f.names \cup {name} |->
                                    IF n = name THEN ino ELSE f.names[n]],
                     data |-> [i \in DOMAIN f.data \cup {ino} |->
                                    IF i = ino THEN <<>> ELSE f.data[i]]],
             fd |-> ino]

\* the downloader's w.WriteAt(content, 0) on the open file
WriteAt(f, fd, content) ==
    [f EXCEPT !.data[fd] = content \o SubSeq(f.data[fd], Len(content) + 1, Len(f.data[fd]))]

\* os.Remove(name): the name goes, whatever file it names; no such name is
\* an error nobody reads
OsRemove(f, name) == [f EXCEPT !.names = [n \in DOMAIN f.names \ {name} |-> f.names[n]]]

OpenFiles(ps) == {ps[p].fd : p \in Procs}

InitDownload ==
    /\ inst \in DownloadInstances
    /\ now = 0 /\ tz = 0
    /\ urlIdle /\ signIdle /\ dlIdle
    /\ store = DownloadStore /\ copying = {} /\ call = NoCall

\* Download(ctx, filePath) is called while the other invocation, if any, is
\* on another key
DownloadStart(p) ==
    /\ procs[p].pc = "idle"
    /\ \E filePath \in DOMAIN store :
           /\ \A q \in Procs \ {p} : procs[q].filePath # filePath
           /\ procs' = [procs EXCEPT ![p] = [NoProc EXCEPT
                            !.pc = IF inst.kind = "File" THEN "get" ELSE "create",
                            !.filePath = filePath]]
    /\ UNCHANGED <<inst, now, tz, urlVars, signVars, storeVars, fs>>

\* s3Manager.Download: tempFile, err := os.Create(filepath.Base(filePath))
DownloadCreate(p) ==
    /\ procs[p].pc = "create"
    /\ fs' = OsCreate(fs, Base(procs[p].filePath)).fs
    /\ procs' = [procs EXCEPT ![p].pc = "get",
                              ![p].fd = OsCreate(fs, Base(procs[p].filePath)).fd]
    /\ UNCHANGED <<inst, now, tz, urlVars, signVars, storeVars>>

\* s3Manager.Download: downloader.DownloadWithContext(ctx, tempFile, ...);
\* File.Download: blockBlobURL.Download(ctx, ...) and get.Body
DownloadGet(p) ==
    /\ procs[p].pc = "get"
    /\ IF inst.kind = "File"
       THEN /\ procs' = [procs EXCEPT ![p].pc = "read",
                                      ![p].body = store[procs[p].filePath].data]
            /\ fs' = fs
       ELSE /\ procs' = [procs EXCEPT ![p].pc = "read"]
            /\ fs' = WriteAt(fs, procs[p].fd, store[procs[p].filePath].data)
    /\ UNCHANGED <<inst, now, tz, urlVars, signVars, storeVars>>

\* s3Manager.Download: ioutil.ReadAll(tempFile); File.Download:
\* reader.Close(), then ioutil.ReadAll(reader), and the return
DownloadRead(p) ==
    /\ procs[p].pc = "read"
    /\ IF inst.kind = "File"
       THEN procs' = [procs EXCEPT
                         ![p].pc = "returned",
                         ![p].err = IF procs[p].body = <<>> THEN ""
                                    ELSE "http: read on closed response body"]
       ELSE procs' = [procs EXCEPT ![p].pc = "close", ![p].file = fs.data[procs[p].fd]]
    /\ UNCHANGED <<inst, now, tz, urlVars, signVars, storeVars, fs>>

\* s3Manager.Download: the deferred tempFile.Close() and os.Remove(filename),
\* and the return
DownloadClose(p) ==
    /\ procs[p].pc = "close"
    /\ procs' = [procs EXCEPT ![p].pc = "returned", ![p].fd = 0]
    /\ fs' = Collect(OsRemove(fs, Base(procs[p].filePath)), OpenFiles(procs'))
    /\ UNCHANGED <<inst, now, tz, urlVars, signVars, storeVars>>

\* the caller has taken the result
DownloadReturn(p) ==
    /\ procs[p].pc = "returned"
    /\ procs' = [procs EXCEPT ![p] = NoProc]
    /\ UNCHANGED <<inst, now, tz, urlVars, signVars, storeVars, fs>>

NextDownload ==
    \E p \in Procs :
        \/ DownloadStart(p) \/ DownloadCreate(p) \/ DownloadGet(p)
        \/ DownloadRead(p) \/ DownloadClose(p) \/ DownloadReturn(p)

SpecDownload == InitDownload /\ [][NextDownload]_vars

-----------------------------------------------------------------------------
(* Claims about the URL builder, checked under SpecURL.                    *)

RoundTripped == fname.called /\ fname.from = "GetBlobURL" /\ ~blob.withSignature

\* C1: for every adapter and every key, GetFileName(GetBlobURL(key, false))
\* is the key again, also for keys of several segments and keys holding
\* "?", "#" or "%".
C1_RoundTrip == RoundTripped => fname.ret = blob.fileName

\* C3 as stated: for every non-empty key and every configuration,
\* GetBlobURL(key, false) is GetURL(), then "/", then the key, and nothing
\* after it.
C3_BaseSlashKey ==
    (blob.called /\ blob.fileName # "" /\ ~blob.withSignature)
        => blob.ret = PlainURL(GetURL(inst) \o "/" \o blob.fileName)

\* C3 amended: the File adapter returns GetURL(), "/", the key, where
\* GetURL() is the root URL template with the account and the container
\* name put in; the S3 adapter returns GetURL() directly followed by the
\* key, where GetURL() is "https://<bucket>.<region>.amazonaws.com/<base
\* path>"; neither appends a query string.
C3_BaseThenKey ==
    (blob.called /\ blob.fileName # "" /\ ~blob.withSignature)
        => IF inst.kind = "File"
           THEN /\ blob.ret = PlainURL(GetURL(inst) \o "/" \o blob.fileName)
                /\ GetURL(inst) = "https://" \o inst.Account \o ".blob.core.windows.net/"
                                      \o inst.ContainerName
           ELSE /\ blob.ret = PlainURL(GetURL(inst) \o blob.fileName)
                /\ GetURL(inst) = "https://" \o inst.BucketName \o "." \o inst.Region
                                      \o ".amazonaws.com/" \o inst.BasePath

C3_Witness ==
    blob.called /\ inst.kind = "File" /\ blob.fileName = "k/k" /\ ~blob.withSignature
    /\ blob.ret.text = "https://acct.blob.core.windows.net/pics/k/k"

\* C4: for every adapter and both values of withSignature,
\* GetBlobURL("", withSignature) is the empty string.
C4_EmptyKey == (blob.called /\ blob.fileName = "") => blob.ret = PlainURL("")

\* the expiry GetBlobURL computes when called at `now`
Expiry == TimeFormat(now + ExpireTime, tz)

\* C5: for every non-empty key, GetBlobURL(key, true) called at time t is
\* GetURL() "/" key "?" se=<escaped expiry t + 3600 s> & sr=b & sp=r &
\* sig=<escaped signature over that expiry and the key> & sv=<escaped API
\* version>, in this order.
C5_SignedURL ==
    (blob.called /\ blob.fileName # "" /\ blob.withSignature)
        => blob.ret =
              [text |-> GetURL(inst) \o "/" \o blob.fileName \o "?" \o "se=" \o QueryEscape(Expiry)
                           \o "&sr=b&sp=r&sig=",
               sig |-> <<QueryEscapeSig(FileGenerateSharedAccessSignature(inst, Expiry, blob.fileName))>>,
               tail |-> "&sv=" \o QueryEscape(inst.APIVersion)]

\* C7: GetFileName returns an input that cannot be parsed as a URL
\* unchanged, in every adapter.
C7_FailOpen == (fname.called /\ URLParse(fname.blobUrl).err) => fname.ret = fname.blobUrl

-----------------------------------------------------------------------------
(* Claims about the signature, checked under SpecSign.                     *)

\* the bytes HMAC is keyed with for a configured secret key
HmacKeyOf(accessKey) == StripTrailingZeros(Base64DecodeString(accessKey).bytes)

-----------------------------------------------------------------------------
(* Claims about the storage operations, checked under SpecStore.           *)

\* the step in which the handler op returns to the caller
Returning(op) == call = NoCall /\ call'.op = op

\* what Upload is to have stored for the call that returns
Uploaded(c) == Object(c.buffBytes, IF c.contentType = "" THEN DetectContentType(c.buffBytes)
                                    ELSE c.contentType)

\* C2: a listing that returns without error holds every key under the
\* prefix the provider has, each once, in the provider's order, however
\* many pages the provider splits the listing into
C2_AllPages ==
    [][(Returning("GetListBlob") /\ call'.err = "")
           => call'.list = Listing(store', call'.prefix)]_vars

\* C2, for the Azure adapter alone: its loop follows the markers to the end
C2_AllPagesFile ==
    [][(Returning("GetListBlob") /\ call'.err = "" /\ inst.kind = "File")
           => call'.list = Listing(store', call'.prefix)]_vars

\* C8: when Upload returns without error the stored object's content type
\* is the caller's when the caller gave one, and the type sniffed from the
\* bytes when the caller gave the empty string
C8_ContentType ==
    [][(Returning("Upload") /\ call'.err = "")
           => /\ UploadKey(inst, call'.filePath) \in DOMAIN store'
              /\ store'[UploadKey(inst, call'.filePath)].contentType
                     = Uploaded(call').contentType]_vars

\* C8, for the Azure adapter alone
C8_ContentTypeFile ==
    [][(Returning("Upload") /\ call'.err = "" /\ inst.kind = "File")
           => /\ call'.filePath \in DOMAIN store'
              /\ store'[call'.filePath] = Uploaded(call')]_vars

\* C9: Upload, Download and Delete address the same object by the same key:
\* a Download of a key whose uploaded object is in the store, with no
\* failure of the provider, returns exactly the bytes of that object, and a
\* successful Delete of a key leaves no object uploaded under that key
C9_SameObject ==
    [][/\ (Returning("Download") /\ ~call'.fault
               /\ UploadKey(inst, call'.filePath) \in DOMAIN store)
              => (call'.err = "" /\ call'.file = store[UploadKey(inst, call'.filePath)].data)
       /\ (Returning("Delete") /\ call'.err = "")
              => UploadKey(inst, call'.filePath) \notin DOMAIN store']_vars

\* C9, the part that holds of the Azure adapter: Delete removes the object
\* Upload stored
C9_DeleteFile ==
    [][(Returning("Delete") /\ call'.err = "" /\ inst.kind = "File")
           => (call'.filePath \in DOMAIN store /\ call'.filePath \notin DOMAIN store')]_vars

\* C10: when Copy returns nil the provider has no copy to the destination
\* pending, and the destination holds the content of the source
C10_CopyDone ==
    [][(Returning("Copy") /\ call'.err = "")
           => /\ \A p \in copying' : p.dest # call'.newPath
              /\ call'.newPath \in DOMAIN store'
              /\ call'.tempPath \in DOMAIN store'
              /\ store'[call'.newPath] = store'[call'.tempPath]]_vars

\* C11: a capability the adapter does not support (GetContainer and
\* GenerateSharedAccessSignature of s3Manager) returns to the caller with a
\* "not supported" outcome: the call does not panic
C11_NotSupportedReturns ==
    (inst.kind = "s3Manager" /\ call.op \in {"GetContainer", "GenerateSharedAccessSignature"})
        => (call.panic = "" /\ call.err = "not supported")

\* the provider calls of the returned invocation that failed
FailedCalls == {i \in DOMAIN call.calls : call.calls[i].err # ""}

\* C12: for Upload and Delete in every adapter, a provider call that fails
\* is the last call of the operation and is made once, the operation
\* returns the empty URL with the error of that call unchanged, and the
\* unsigned URL of the key is returned exactly when every provider call of
\* the operation succeeded
C12_FailureReported ==
    call.op \in {"Upload", "Delete"}
        => /\ \A i \in FailedCalls :
                  i = Len(call.calls) /\ call.err = call.calls[i].err /\ call.url = ""
           /\ \A i, j \in DOMAIN call.calls :
                  call.calls[i].name = call.calls[j].name => i = j
           /\ call.url # ""
                  => /\ FailedCalls = {} /\ call.err = ""
                     /\ call.url = GetBlobURL(inst, call.filePath, FALSE, 0, 0).text
           /\ (FailedCalls = {} /\ call.calls # <<>>) => (call.url # "" /\ call.err = "")

\* C12: the waiter of an s3Manager Delete has failed with AccessDenied
C12_Witness ==
    /\ call.op = "Delete" /\ inst.kind = "s3Manager"
    /\ Len(call.calls) = 2 /\ call.calls[1].err = "" /\ call.calls[2].err = "AccessDenied"
    /\ call.err = "AccessDenied" /\ call.url = ""

\* C13: the caller's context governs every provider call of Upload,
\* Delete, GetListBlob, Download and Copy: each call is given the context,
\* and once the context is done the call in progress ends with the
\* context's error, no further call is made and the operation returns
\* that error
C13_ContextGoverns ==
    (call.op \in {"Upload", "Delete", "GetListBlob", "Download", "Copy"} /\ call.done # 0)
        => \A i \in DOMAIN call.calls :
               /\ call.calls[i].ctx
               /\ i >= call.done
                      => /\ i = Len(call.calls)
                         /\ call.calls[i].err = "context canceled"
                         /\ call.err = "context canceled"

\* C13, for the Azure adapter alone, and for Download of s3Manager
C13_ContextGovernsFile ==
    (/\ call.op \in {"Upload", "Delete", "GetListBlob", "Download", "Copy"}
     /\ call.done # 0
     /\ inst.kind = "File" \/ call.op = "Download")
        => \A i \in DOMAIN call.calls :
               /\ call.calls[i].ctx
               /\ i >= call.done
                      => /\ i = Len(call.calls)
                         /\ call.calls[i].err = "context canceled"
                         /\ call.err = "context canceled"

-----------------------------------------------------------------------------
(* Further claims about the signature, checked under SpecSign.             *)

\* C14: the signature is the base64 encoding of the HMAC-SHA256, keyed with
\* the bytes the secret key decodes to, of the 11 fields "r", "", expiry,
\* "/" account "/" container "/" key, "", API version, "", "", "", "", ""
\* joined by newlines
C14_ElevenFields ==
    sigA.called
        => sigA.ret =
             Base64EncodeToString(
               HmacSha256(Base64DecodeString(sigA.c.AccessKey).bytes,
                          "r" \o "\n" \o "" \o "\n" \o sigA.expiryTime \o "\n"
                          \o "/" \o sigA.c.Account \o "/" \o sigA.c.ContainerName
                          \o "/" \o sigA.fileName \o "\n"
                          \o "" \o "\n" \o sigA.c.APIVersion \o "\n"
                          \o "" \o "\n" \o "" \o "\n" \o "" \o "\n" \o "" \o "\n" \o ""))

\* C14: a signature made with the secret "QUJD", the bytes "ABC"
C14_Witness ==
    /\ sigA.called /\ sigA.c.AccessKey = "QUJD"
    /\ sigA.ret.base64.hmacKey = <<65, 66, 67>>
    /\ sigA.ret.base64.msg
           = "r\n\n2024-01-01T00:00:00Z\n/acct/pics/a/b.png\n\n2014-02-14\n\n\n\n\n"

\* C16: with a secret key that is not valid base64 the signing call yields
\* no signature: it reports a configuration error
C16_FailFast ==
    (sigA.called /\ Base64DecodeString(sigA.c.AccessKey).err)
        => "base64" \notin DOMAIN sigA.ret

\* C16, the other way round: with a secret key that is valid base64 the
\* signing call yields a signature keyed with the decoded bytes
C16_ValidKeySigns ==
    (sigA.called /\ ~Base64DecodeString(sigA.c.AccessKey).err)
        => sigA.ret.base64.hmacKey = HmacKeyOf(sigA.c.AccessKey)

-----------------------------------------------------------------------------
(* Claims about concurrent invocations, checked under SpecDownload.        *)

\* C15: two concurrent Download calls on different keys share no writable
\* state: no two of them ever have the same local file open, and each one
\* returns, without error, the full content of its own object
C15_Isolated ==
    /\ \A p \in Procs : \A q \in Procs \ {p} :
           procs[p].fd # 0 => procs[p].fd # procs[q].fd
    /\ \A p \in Procs :
           procs[p].pc = "returned"
               => (procs[p].err = "" /\ procs[p].file = store[procs[p].filePath].data)

\* C15, where it holds: s3Manager invocations whose keys differ in the last
\* segment never have the same local file open
C15_DistinctNamesDistinctFiles ==
    \A p \in Procs : \A q \in Procs \ {p} :
        (procs[p].fd # 0 /\ procs[q].fd # 0
             /\ Base(procs[p].filePath) # Base(procs[q].filePath))
            => procs[p].fd # procs[q].fd

\* C15: an s3Manager Download of "k" has returned the bytes of "d/k"
C15_WrongContent ==
    \E p \in Procs :
        /\ inst.kind = "s3Manager" /\ procs[p].pc = "returned"
        /\ procs[p].filePath = "k" /\ procs[p].file = <<100, 107>>

====
